---- MODULE Spec2Model ----
(***************************************************************************)
(* Model of the hydration commit service, commitserver/commit/commit.go:   *)
(* Service.Commit and makeSecureTempDir.                                   *)
(*                                                                         *)
(* A request runs Commit as a sequence of steps.  pc[r] names the step    *)
(* request r executes next; every collaborator call (file system, git      *)
(* client, credential source) either succeeds or fails, chosen by the      *)
(* environment.  The file system is the set of existing directories `dirs` *)
(* and the map `files` from absolute path to content; a path is the        *)
(* sequence of its components.                                             *)
(***************************************************************************)
EXTENDS Integers, Sequences, FiniteSets, TLC

\* ------------------------------------------------------------------ bounds
NumRequests == 2    \* concurrent Commit calls of SpecConc
MaxPaths == 2       \* longest r.Paths of a request of Spec

Requests == 1..NumRequests

\* ------------------------------------------------------------- path values
\* "/tmp/_commit-service"
TempRoot == <<"tmp", "_commit-service">>

\* The value uuid.NewRandom() returns to each call of makeSecureTempDir: a
\* 122-bit random identifier.  Identifiers of different calls are taken to be
\* distinct.
UUIDNames == <<"uuid-1", "uuid-2", "uuid-3", "uuid-4", "uuid-5">>
NewRandom(r) == UUIDNames[r]

hydratorMetadataName == "hydrator.metadata"
manifestName == "manifest.yaml"
readmeName == "README.md"

\* HydrationPath.Path values a caller can send: "", ".", "apps/foo",
\* "apps/bar", "../../etc", "/etc".  A leading "/" component marks an
\* absolute path.
PathStrings ==
    { <<>>, <<".">>, <<"apps", "foo">>, <<"apps", "bar">>,
      <<"..", "..", "etc">>, <<"/", "etc">> }

CommandLists == { <<>>, <<"helm template", "kustomize build">> }

\* The entries of r.Paths: every path with a list of commands, and the root
\* and "apps/foo" also without commands.
HydrationPaths ==
    [Path : PathStrings, Manifests : {<<"M">>}, Commands : CommandLists \ {<<>>}]
    \cup [Path : {<<>>, <<"apps", "foo">>}, Manifests : {<<"M">>}, Commands : {<<>>}]

RECURSIVE SeqsUpTo(_, _)
SeqsUpTo(S, n) ==
    IF n = 0 THEN {<<>>}
    ELSE LET shorter == SeqsUpTo(S, n - 1)
         IN  shorter \cup {Append(s, x) : s \in {t \in shorter : Len(t) = n - 1}, x \in S}

\* r.Repo.Repo, r.RepoUrl and r.DrySha of a request
RequestHeaders ==
    { [Repo |-> "repoA", RepoUrl |-> "https://git/a", DrySha |-> "abc123"],
      [Repo |-> "repoB", RepoUrl |-> "https://git/b", DrySha |-> "def456"] }

ManifestsRequest(h, paths) ==
    [Repo |-> h.Repo, RepoUrl |-> h.RepoUrl, DrySha |-> h.DrySha,
     TargetBranch |-> "env/prod", SyncBranch |-> "main",
     CommitMessage |-> "hydrate", Paths |-> paths]

\* the requests of Spec: every header, every list of at most MaxPaths entries
AllRequests ==
    {ManifestsRequest(h, ps) : h \in RequestHeaders, ps \in SeqsUpTo(HydrationPaths, MaxPaths)}

\* the requests of SpecConc: one repository, one entry
ConcRequests ==
    {ManifestsRequest(h, ps) : h \in {x \in RequestHeaders : x.Repo = "repoA"},
        ps \in { <<[Path |-> <<"apps", "foo">>, Manifests |-> <<"M">>,
                    Commands |-> <<"helm template", "kustomize build">>]>> }}

\* the requests of SpecLive: one repository, at most MaxPaths entries, each
\* "apps/foo" or "apps/bar" with commands
LiveRequests ==
    {ManifestsRequest(h, ps) : h \in {x \in RequestHeaders : x.Repo = "repoA"},
        ps \in SeqsUpTo([Path : {<<"apps", "foo">>, <<"apps", "bar">>}, Manifests : {<<"M">>},
                         Commands : CommandLists \ {<<>>}], MaxPaths)}

NoRequest == [Repo |-> "", RepoUrl |-> "", DrySha |-> "", TargetBranch |-> "",
              SyncBranch |-> "", CommitMessage |-> "", Paths |-> <<>>]

\* labels of the pending-request gauge
GaugeLabels == {h.Repo : h \in RequestHeaders} \cup {h.RepoUrl : h \in RequestHeaders}

\* ---------------------------------------------------------- path functions
IsPrefix(p, q) == Len(p) <= Len(q) /\ SubSeq(q, 1, Len(p)) = p

Parent(p) == SubSeq(p, 1, Len(p) - 1)

\* Lexical resolution of the components `comps` on top of `stack`, never
\* popping below `floor` components: "", "." and the root marker are
\* skipped, ".." pops one component unless the stack is at the floor.
RECURSIVE Resolve(_, _, _)
Resolve(stack, comps, floor) ==
    IF comps = <<>> THEN stack
    ELSE LET c == Head(comps)
             next == IF c \in {"", ".", "/"} THEN stack
                     ELSE IF c = ".."
                          THEN IF Len(stack) > floor THEN Parent(stack) ELSE stack
                          ELSE Append(stack, c)
         IN  Resolve(next, Tail(comps), floor)

\* path.Join(root, p): concatenate and Clean; ".." climbs out of root
PathJoin(root, p) == Resolve(root, p, 0)

\* an absolute second argument replaces the root
SecureJoin_AbsReplaces(root, unsafePath) ==
    IF unsafePath # <<>> /\ Head(unsafePath) = "/"
    THEN Resolve(<<>>, unsafePath, 0)
    ELSE Resolve(root, unsafePath, Len(root))

\* securejoin.SecureJoin(root, unsafePath) on a tree without symlinks: the
\* path is resolved as if root were "/", so ".." stops at root and an
\* absolute path is taken relative to root.
SecureJoin(root, unsafePath) == Resolve(root, unsafePath, Len(root))

\* dirPath with the identifier left out
makeSecureTempDirPath_NoUUID(dirName) == TempRoot

\* path.Join("/tmp/_commit-service", dirName.String())
makeSecureTempDirPath(dirName) == PathJoin(TempRoot, <<dirName>>)

\* every ancestor of p and p itself
Ancestors(p) == {SubSeq(p, 1, n) : n \in 0..Len(p)}

\* ------------------------------------------------------------ file contents
\* type hydratorMetadataFile, as the JSON object written to disk
hydratorMetadataFile(commands, repoURL, drySha) ==
    [kind |-> "metadata", commands |-> commands, repoURL |-> repoURL, drySha |-> drySha]

\* the zero value of Commands, serialised as an empty list
NoCommands == <<>>

\* the Markdown code fence of the template: three backquotes
Fence == "[fence]"

\* manifestHydrationReadmeTemplate executed on a metadata record: the lines
\* of the README, each line the sequence of its literal and substituted parts
RenderReadme(m) ==
    << <<"">>, <<"# Manifest Hydration">>, <<"">>,
       <<"To hydrate the manifests in this repository, run the following commands:">>,
       <<"">>, <<Fence, "shell">>, <<"">>,
       <<"git clone ", m.repoURL>>,
       <<"# cd into the cloned directory">>,
       <<"git checkout ", m.drySha>> >>
    \o [k \in 1..Len(m.commands) |-> <<m.commands[k]>>]
    \o << <<Fence>> >>

ReadmeFile(m) == [kind |-> "readme", lines |-> RenderReadme(m)]

ManifestFile(manifests) == [kind |-> "manifests", docs |-> manifests]

\* a file left on the target branch by an earlier hydration
StaleFile == [kind |-> "manifests", docs |-> <<"old">>]

\* --------------------------------------------------------- remote repository
Branches == {"main", "env/prod"}

EmptyTree == <<>>

\* The remote before the first request: no branch yet, or a sync branch with
\* one file and a target branch holding an earlier hydration.
RemoteInits ==
    { [b \in Branches |-> [exists |-> FALSE, tree |-> EmptyTree]],
      [b \in Branches |->
          IF b = "main"
          THEN [exists |-> TRUE, tree |-> (<<"base.txt">> :> StaleFile)]
          ELSE [exists |-> TRUE,
                tree |-> (<<"old", manifestName>> :> StaleFile)
                         @@ (<<hydratorMetadataName>> :>
                               hydratorMetadataFile(NoCommands, "https://git/a", "000000"))]] }

NoRemote == [b \in Branches |-> [exists |-> FALSE, tree |-> EmptyTree]]

\* -------------------------------------------------------------------- state
VARIABLES
    pc,                     \* pc[r]: the step request r executes next
    req,                    \* req[r]: the *apiclient.ManifestsRequest of r
    dirPath,                \* dirPath[r]: the workspace, <<>> before it exists
    idx,                    \* idx[r]: position of the loop over r.Paths
    fullHydratePath,        \* fullHydratePath[r] of the current entry
    err,                    \* err[r]: the error Commit returns, outermost
                            \* message first; <<>> is nil
    cleanupErr,             \* cleanupErr[r]: cleanup() returned an error (logged)
    calls,                  \* calls[r]: the calls r made, in order
    written,                \* written[r]: directories created and files
                            \* written by the hydration writes of r
    dirs,                   \* existing directories
    files,                  \* existing files: path -> content
    pendingCommitRequests,  \* the pending-request gauge, per label
    remote,                 \* remote[b]: branch b of the remote repository
    fetched,                \* fetched[r]: the branches r fetched from the remote
    pushes,                 \* pushes[r]: commits r pushed to the remote
    ctxDoneAt               \* ctxDoneAt[r]: the number of calls r had made when
                            \* its ctx was cancelled or expired; -1 while
                            \* ctx is live

vars == <<pc, req, dirPath, idx, fullHydratePath, err, cleanupErr, calls, written,
          dirs, files, pendingCommitRequests, remote, fetched, pushes, ctxDoneAt>>

reqVars == <<req, dirPath, fullHydratePath>>
fsVars == <<dirs, files, written>>
gitVars == <<remote, fetched, pushes>>

Init ==
    /\ pc = [r \in Requests |-> "idle"]
    /\ req = [r \in Requests |-> NoRequest]
    /\ dirPath = [r \in Requests |-> <<>>]
    /\ idx = [r \in Requests |-> 0]
    /\ fullHydratePath = [r \in Requests |-> <<>>]
    /\ err = [r \in Requests |-> <<>>]
    /\ cleanupErr = [r \in Requests |-> FALSE]
    /\ calls = [r \in Requests |-> <<>>]
    /\ written = [r \in Requests |-> {}]
    /\ dirs = {<<>>, <<"tmp">>}
    /\ files = <<>>
    /\ pendingCommitRequests = [l \in GaugeLabels |-> 0]
    /\ remote \in RemoteInits
    /\ fetched = [r \in Requests |-> NoRemote]
    /\ pushes = [r \in Requests |-> 0]
    /\ ctxDoneAt = [r \in Requests |-> -1]

\* ------------------------------------------------------------- control flow
\* The wrapping message of the error Commit returns when `step` fails.
ErrorMessage(step) ==
    CASE step = "makeSecureTempDir" -> "failed to create temp dir"
      [] step = "NewClientExt"      -> "failed to create git client"
      [] step = "Init"              -> "failed to init git client"
      [] step = "Fetch"             -> "failed to clone repo"
      [] step = "GetUserInfo"       -> "failed to get github app info"
      [] step = "SetAuthor"         -> "failed to set author"
      [] step = "CheckoutOrOrphan"  -> "failed to checkout sync branch"
      [] step = "CheckoutOrNew"     -> "failed to checkout target branch"
      [] step = "RemoveContents"    -> "failed to clear repo"
      [] step = "WriteTopMetadata"  -> "failed to write top-level hydrator metadata"
      [] step = "SecureJoin"        -> "failed to construct hydrate path"
      [] step = "MkdirAll"          -> "failed to create path"
      [] step = "WriteManifests"    -> "failed to write manifests"
      [] step = "WriteMetadata"     -> "failed to write hydrator metadata"
      [] step = "WriteReadme"       -> "failed to write readme"
      [] step = "CommitAndPush"     -> "failed to commit and push"

\* the steps of the pipeline before the loop, in program order
Prologue ==
    <<"makeSecureTempDir", "NewClientExt", "Init", "Fetch", "GetUserInfo", "SetAuthor",
      "CheckoutOrOrphan", "CheckoutOrNew", "RemoveContents", "WriteTopMetadata">>

\* the steps of one iteration of the loop over r.Paths, in program order
LoopBody == <<"SecureJoin", "MkdirAll", "WriteManifests", "WriteMetadata", "WriteReadme">>

Steps == {Prologue[k] : k \in 1..Len(Prologue)} \cup {LoopBody[k] : k \in 1..Len(LoopBody)}
             \cup {"CommitAndPush"}

IndexOf(seq, x) == CHOOSE k \in 1..Len(seq) : seq[k] = x

\* the commit is made inside the loop, after the first entry
LoopAt_CommitInLoop(r, k) ==
    [pc |-> IF k = 1 /\ k <= Len(req[r].Paths) THEN "SecureJoin" ELSE "CommitAndPush",
     idx |-> k]

\* the loop does not advance: it starts over at the first entry (followed
\* for 30 calls)
LoopAt_NoAdvance(r, k) ==
    IF Len(req[r].Paths) > 0 /\ Len(calls[r]) < 30
    THEN [pc |-> "SecureJoin", idx |-> 1]
    ELSE [pc |-> "CommitAndPush", idx |-> k]

\* `for _, p := range r.Paths`: the next entry, or the commit after the last
LoopAt(r, k) ==
    [pc |-> IF k <= Len(req[r].Paths) THEN "SecureJoin" ELSE "CommitAndPush", idx |-> k]

\* the deferred calls run in the order of their registration
DeferOrder_Registration == <<"DecPendingCommitRequest", "cleanup">>

\* The deferred calls in the order they run when Commit returns: last
\* registered first, so cleanup() (deferred after makeSecureTempDir) before
\* the decrement of the gauge (deferred at entry).
DeferOrder == <<"cleanup", "DecPendingCommitRequest">>

\* the defer of cleanup is registered only after the client was created
Deferred_LateCleanup(step) ==
    IF step \in {"makeSecureTempDir", "NewClientExt"}
    THEN "DecPendingCommitRequest" ELSE "cleanup"

\* the defer of the decrement is registered only after the workspace exists
Deferred_LateDec(step) ==
    IF step = "makeSecureTempDir" THEN "returned" ELSE "cleanup"

\* The deferred calls that run when Commit returns from `step`, first one
\* first: cleanup() is deferred once makeSecureTempDir has succeeded, the
\* decrement of the gauge from the start.
Deferred(step) ==
    IF step = "makeSecureTempDir" THEN "DecPendingCommitRequest" ELSE DeferOrder[1]

\* The deferred call that runs after the deferred call d, or the return to
\* the caller; cleanup() is registered only when the workspace was created.
DeferredAfter(r, d) ==
    LET k == IndexOf(DeferOrder, d)
    IN  IF k < Len(DeferOrder) /\ dirPath[r] # <<>> THEN DeferOrder[k + 1] ELSE "returned"

\* the target branch is checked out before the sync branch
NextStep_CheckoutSwapped(r, step) ==
    IF step = "CommitAndPush" THEN [pc |-> Deferred(step), idx |-> idx[r]]
    ELSE IF step = "WriteTopMetadata" THEN LoopAt(r, 1)
    ELSE IF step = "WriteReadme" THEN LoopAt(r, idx[r] + 1)
    ELSE IF step \in {LoopBody[k] : k \in 1..Len(LoopBody)}
         THEN [pc |-> LoopBody[IndexOf(LoopBody, step) + 1], idx |-> idx[r]]
    ELSE IF step = "SetAuthor" THEN [pc |-> "CheckoutOrNew", idx |-> idx[r]]
    ELSE IF step = "CheckoutOrNew" THEN [pc |-> "CheckoutOrOrphan", idx |-> idx[r]]
    ELSE IF step = "CheckoutOrOrphan" THEN [pc |-> "RemoveContents", idx |-> idx[r]]
    ELSE [pc |-> Prologue[IndexOf(Prologue, step) + 1], idx |-> idx[r]]

\* Where Commit continues after `step` succeeded.
NextStep(r, step) ==
    IF step = "CommitAndPush" THEN [pc |-> Deferred(step), idx |-> idx[r]]
    ELSE IF step = "WriteTopMetadata" THEN LoopAt(r, 1)
    ELSE IF step = "WriteReadme" THEN LoopAt(r, idx[r] + 1)
    ELSE IF step \in {LoopBody[k] : k \in 1..Len(LoopBody)}
         THEN [pc |-> LoopBody[IndexOf(LoopBody, step) + 1], idx |-> idx[r]]
         ELSE [pc |-> Prologue[IndexOf(Prologue, step) + 1], idx |-> idx[r]]

\* the error of RemoveContents is logged and the function goes on
AfterFailure_NoReturn(r, step) ==
    IF step = "RemoveContents" THEN NextStep(r, step)
    ELSE [pc |-> Deferred(step), idx |-> idx[r]]

\* a failed WriteManifests is tried again
AfterFailure_Retry(r, step) ==
    IF step = "WriteManifests" /\ Len(calls[r]) < 20 THEN [pc |-> step, idx |-> idx[r]]
    ELSE [pc |-> Deferred(step), idx |-> idx[r]]

\* a rejected push is tried once more
AfterFailure_RetryPush(r, step) ==
    IF step = "CommitAndPush" /\ \A k \in 1..Len(calls[r]) : calls[r][k].op # "CommitAndPush"
    THEN [pc |-> step, idx |-> idx[r]]
    ELSE [pc |-> Deferred(step), idx |-> idx[r]]

\* the error of makeSecureTempDir is logged and the function goes on
AfterFailure_IgnoreTempDir(r, step) ==
    IF step = "makeSecureTempDir" THEN NextStep(r, step)
    ELSE [pc |-> Deferred(step), idx |-> idx[r]]

\* `if err != nil { ...; return &apiclient.ManifestsResponse{}, fmt.Errorf(...) }`
AfterFailure(r, step) == [pc |-> Deferred(step), idx |-> idx[r]]

\* -------------------------------------------------------------- file system
Restrict(f, S) == [x \in S |-> f[x]]

\* os.MkdirAll(p): p and every missing ancestor
MkdirAllDirs(ds, p) == ds \cup Ancestors(p)

\* os.RemoveAll(d): d and everything below it
RemoveAllDirs(ds, d) == {p \in ds : ~IsPrefix(d, p)}
RemoveAllFiles(fs, d) == Restrict(fs, {p \in DOMAIN fs : ~IsPrefix(d, p)})

GitDir(d) == Append(d, ".git")

\* the files of workspace d outside .git, by their path relative to d
WorkTree(fs, d) ==
    LET tracked == {p \in DOMAIN fs : IsPrefix(d, p) /\ ~IsPrefix(GitDir(d), p)}
    IN  [rel \in {SubSeq(p, Len(d) + 1, Len(p)) : p \in tracked} |-> fs[d \o rel]]

\* the working tree of workspace d replaced by `tree`; .git is kept
SetWorkTreeFiles(fs, d, tree) ==
    LET kept == {p \in DOMAIN fs : ~IsPrefix(d, p) \/ IsPrefix(GitDir(d), p)}
    IN  [p \in {d \o rel : rel \in DOMAIN tree} |-> tree[SubSeq(p, Len(d) + 1, Len(p))]]
        @@ Restrict(fs, kept)

SetWorkTreeDirs(ds, d, tree) ==
    {p \in ds : ~IsPrefix(d, p) \/ p = d \/ IsPrefix(GitDir(d), p)}
    \cup UNION {Ancestors(Parent(d \o rel)) : rel \in DOMAIN tree}

\* ----------------------------------------------------------- hydrator helper
\* The file `name` of directory `dir` of the helper created by
\* newHydratorHelper(root): dir is resolved inside root.
HelperPath(root, dir, name) == Append(root \o Resolve(<<>>, dir, 0), name)

\* "." is not recognised and is taken as the name of a subdirectory
HydratePath_DotAsName(p) == IF p.Path = <<".">> THEN <<"dot">> ELSE p.Path

\* `if hydratePath == "." { hydratePath = "" }`
HydratePath(p) == IF p.Path = <<".">> THEN <<>> ELSE p.Path

\* the per-entry record written without the entry's commands
EntryMetadata_NoCommands(m, p) == hydratorMetadataFile(NoCommands, m.RepoUrl, m.DrySha)

\* hydratorMetadataFile{Commands: p.Commands, DrySHA: r.DrySha, RepoURL: r.RepoUrl}
EntryMetadata(m, p) == hydratorMetadataFile(p.Commands, m.RepoUrl, m.DrySha)

\* hydratorMetadataFile{DrySHA: r.DrySha, RepoURL: r.RepoUrl}
TopMetadata(m) == hydratorMetadataFile(NoCommands, m.RepoUrl, m.DrySha)

\* the gauge decremented under the URL of the request
DecLabel_RepoUrl(m) == m.RepoUrl

\* s.metricsServer.IncPendingCommitRequest(r.Repo.Repo)
IncLabel(m) == m.Repo
\* defer s.metricsServer.DecPendingCommitRequest(r.Repo.Repo)
DecLabel(m) == m.Repo

\* ------------------------------------------------------------------ actions
\* What every step does with its outcome: the call is recorded, Commit goes
\* on after a success and returns the wrapped error after a failure.
Outcome(r, step, ok, chain) ==
    LET to == IF ok THEN NextStep(r, step) ELSE AfterFailure(r, step)
    IN  /\ calls' = [calls EXCEPT ![r] = Append(@, [op |-> step, i |-> idx[r], ok |-> ok])]
        /\ pc' = [pc EXCEPT ![r] = to.pc]
        /\ idx' = [idx EXCEPT ![r] = to.idx]
        /\ err' = [err EXCEPT ![r] = IF ok THEN <<>> ELSE chain]

Wrapped(step) == <<ErrorMessage(step), "cause">>

\* Commit is entered with a request of `inputs`; the gauge is incremented.
Commit(r, inputs) ==
    /\ pc[r] = "idle"
    /\ \E m \in inputs :
         /\ req' = [req EXCEPT ![r] = m]
         /\ pendingCommitRequests' =
                [pendingCommitRequests EXCEPT ![IncLabel(m)] = @ + 1]
    /\ pc' = [pc EXCEPT ![r] = "makeSecureTempDir"]
    /\ UNCHANGED <<ctxDoneAt, dirPath, idx, fullHydratePath, err, cleanupErr, calls, fsVars,
                   gitVars>>

\* dirPath, cleanup, err := makeSecureTempDir()
MakeSecureTempDir(r) ==
    /\ pc[r] = "makeSecureTempDir"
    /\ r <= Len(UUIDNames)
    /\ \/ \* uuid.NewRandom() fails
          /\ Outcome(r, "makeSecureTempDir", FALSE,
                     <<ErrorMessage("makeSecureTempDir"), "failed to generate uuid", "cause">>)
          /\ UNCHANGED <<dirPath, dirs>>
       \/ \* os.MkdirAll(dirPath) fails
          /\ Outcome(r, "makeSecureTempDir", FALSE,
                     <<ErrorMessage("makeSecureTempDir"), "failed to create temp dir", "cause">>)
          /\ UNCHANGED <<dirPath, dirs>>
       \/ /\ Outcome(r, "makeSecureTempDir", TRUE, <<>>)
          /\ dirPath' = [dirPath EXCEPT ![r] = makeSecureTempDirPath(NewRandom(r))]
          /\ dirs' = MkdirAllDirs(dirs, dirPath'[r])
    /\ UNCHANGED <<ctxDoneAt, req, fullHydratePath, cleanupErr, files, written,
                   pendingCommitRequests, gitVars>>

\* gitClient, err := git.NewClientExt(r.RepoUrl, dirPath, ...)
NewClientExt(r) ==
    /\ pc[r] = "NewClientExt"
    /\ \E ok \in BOOLEAN : Outcome(r, "NewClientExt", ok, Wrapped("NewClientExt"))
    /\ UNCHANGED <<ctxDoneAt, reqVars, cleanupErr, fsVars, pendingCommitRequests, gitVars>>

\* err = gitClient.Init()
GitInit(r) ==
    /\ pc[r] = "Init"
    /\ \E ok \in BOOLEAN :
         /\ Outcome(r, "Init", ok, Wrapped("Init"))
         /\ dirs' = IF ok THEN MkdirAllDirs(dirs, GitDir(dirPath[r])) ELSE dirs
    /\ UNCHANGED <<ctxDoneAt, reqVars, cleanupErr, files, written, pendingCommitRequests, gitVars>>

\* err = gitClient.Fetch("")
Fetch(r) ==
    /\ pc[r] = "Fetch"
    /\ \E ok \in BOOLEAN :
         /\ Outcome(r, "Fetch", ok, Wrapped("Fetch"))
         /\ fetched' = IF ok THEN [fetched EXCEPT ![r] = remote] ELSE fetched
    /\ UNCHANGED <<ctxDoneAt, reqVars, cleanupErr, fsVars, pendingCommitRequests, remote, pushes>>

\* authorName, authorEmail, err := gitCreds.GetUserInfo(ctx)
GetUserInfo(r) ==
    /\ pc[r] = "GetUserInfo"
    /\ \E ok \in BOOLEAN : Outcome(r, "GetUserInfo", ok, Wrapped("GetUserInfo"))
    /\ UNCHANGED <<ctxDoneAt, reqVars, cleanupErr, fsVars, pendingCommitRequests, gitVars>>

\* out, err := gitClient.SetAuthor(authorName, authorEmail)
SetAuthor(r) ==
    /\ pc[r] = "SetAuthor"
    /\ \E ok \in BOOLEAN : Outcome(r, "SetAuthor", ok, Wrapped("SetAuthor"))
    /\ UNCHANGED <<ctxDoneAt, reqVars, cleanupErr, fsVars, pendingCommitRequests, gitVars>>

\* a checkout that leaves `tree` in the workspace of r, or fails
CheckoutStep(r, step, tree) ==
    /\ pc[r] = step
    /\ \E ok \in BOOLEAN :
         /\ Outcome(r, step, ok, Wrapped(step))
         /\ files' = IF ok THEN SetWorkTreeFiles(files, dirPath[r], tree) ELSE files
         /\ dirs' = IF ok THEN SetWorkTreeDirs(dirs, dirPath[r], tree) ELSE dirs
    /\ UNCHANGED <<ctxDoneAt, reqVars, cleanupErr, written, pendingCommitRequests, gitVars>>

\* out, err = gitClient.CheckoutOrOrphan(r.SyncBranch, false)
CheckoutOrOrphan(r) ==
    CheckoutStep(r, "CheckoutOrOrphan",
                 IF fetched[r][req[r].SyncBranch].exists
                 THEN fetched[r][req[r].SyncBranch].tree ELSE EmptyTree)

\* out, err = gitClient.CheckoutOrNew(r.TargetBranch, r.SyncBranch, false)
CheckoutOrNew(r) ==
    CheckoutStep(r, "CheckoutOrNew",
                 IF fetched[r][req[r].TargetBranch].exists
                 THEN fetched[r][req[r].TargetBranch].tree
                 ELSE WorkTree(files, dirPath[r]))

\* the call that clears the working tree leaves it as it was
RemoveContents_KeepsTree(r) ==
    CheckoutStep(r, "RemoveContents", WorkTree(files, dirPath[r]))

\* out, err = gitClient.RemoveContents()
RemoveContents(r) == CheckoutStep(r, "RemoveContents", EmptyTree)

\* a write of the hydrator helper: os.WriteFile fails when the directory of
\* `target` does not exist, and may fail for any other reason
WriteStep(r, step, target, content) ==
    /\ pc[r] = step
    /\ \E ok \in BOOLEAN :
         /\ ok => Parent(target) \in dirs
         /\ Outcome(r, step, ok, Wrapped(step))
         /\ files' = IF ok THEN (target :> content) @@ files ELSE files
         /\ written' = IF ok THEN [written EXCEPT ![r] = @ \cup {target}] ELSE written
    /\ UNCHANGED <<ctxDoneAt, reqVars, cleanupErr, dirs, pendingCommitRequests, gitVars>>

\* the entry of r.Paths the loop is at
Entry(r) == req[r].Paths[idx[r]]

\* err = h.WriteMetadata(hydratorMetadataFile{DrySHA: r.DrySha, RepoURL: r.RepoUrl}, "")
WriteTopMetadata(r) ==
    WriteStep(r, "WriteTopMetadata",
              HelperPath(dirPath[r], <<>>, hydratorMetadataName), TopMetadata(req[r]))

\* fullHydratePath, err := securejoin.SecureJoin(dirPath, hydratePath)
JoinHydratePath(r) ==
    /\ pc[r] = "SecureJoin"
    /\ \E ok \in BOOLEAN :
         /\ Outcome(r, "SecureJoin", ok, Wrapped("SecureJoin"))
         /\ fullHydratePath' =
                IF ok THEN [fullHydratePath EXCEPT
                              ![r] = SecureJoin(dirPath[r], HydratePath(Entry(r)))]
                ELSE fullHydratePath
    /\ UNCHANGED <<ctxDoneAt, req, dirPath, cleanupErr, fsVars, pendingCommitRequests, gitVars>>

\* err = os.MkdirAll(fullHydratePath, os.ModePerm)
MkdirAll(r) ==
    /\ pc[r] = "MkdirAll"
    /\ \E ok \in BOOLEAN :
         /\ Outcome(r, "MkdirAll", ok, Wrapped("MkdirAll"))
         /\ dirs' = IF ok THEN MkdirAllDirs(dirs, fullHydratePath[r]) ELSE dirs
         /\ written' = IF ok
                       THEN [written EXCEPT ![r] = @ \cup (Ancestors(fullHydratePath[r]) \ dirs)]
                       ELSE written
    /\ UNCHANGED <<ctxDoneAt, reqVars, cleanupErr, files, pendingCommitRequests, gitVars>>

\* err = h.WriteManifests(p.Manifests, hydratePath)
WriteManifests(r) ==
    /\ pc[r] = "WriteManifests"
    /\ WriteStep(r, "WriteManifests",
                 HelperPath(dirPath[r], HydratePath(Entry(r)), manifestName),
                 ManifestFile(Entry(r).Manifests))

\* err = h.WriteMetadata(hydratorMetadata, hydratePath)
WriteMetadata(r) ==
    /\ pc[r] = "WriteMetadata"
    /\ WriteStep(r, "WriteMetadata",
                 HelperPath(dirPath[r], HydratePath(Entry(r)), hydratorMetadataName),
                 EntryMetadata(req[r], Entry(r)))

\* err = h.WriteReadme(hydratorMetadata, hydratePath)
WriteReadme(r) ==
    /\ pc[r] = "WriteReadme"
    /\ WriteStep(r, "WriteReadme",
                 HelperPath(dirPath[r], HydratePath(Entry(r)), readmeName),
                 ReadmeFile(EntryMetadata(req[r], Entry(r))))

\* out, err = gitClient.CommitAndPush(r.TargetBranch, r.CommitMessage): one
\* commit of the working tree, pushed to the target branch; `return ..., nil`
CommitAndPush(r) ==
    /\ pc[r] = "CommitAndPush"
    /\ \E ok \in BOOLEAN :
         /\ Outcome(r, "CommitAndPush", ok, Wrapped("CommitAndPush"))
         /\ remote' = IF ok
                      THEN [remote EXCEPT ![req[r].TargetBranch] =
                                [exists |-> TRUE, tree |-> WorkTree(files, dirPath[r])]]
                      ELSE remote
         /\ pushes' = IF ok THEN [pushes EXCEPT ![r] = @ + 1] ELSE pushes
    /\ UNCHANGED <<ctxDoneAt, reqVars, cleanupErr, fsVars, pendingCommitRequests, fetched>>

\* the error of cleanup() replaces the result of Commit
Cleanup_ReturnsError(r) ==
    /\ pc[r] = "cleanup"
    /\ \/ /\ dirs' = RemoveAllDirs(dirs, dirPath[r])
          /\ files' = RemoveAllFiles(files, dirPath[r])
          /\ UNCHANGED <<cleanupErr, err>>
       \/ /\ cleanupErr' = [cleanupErr EXCEPT ![r] = TRUE]
          /\ err' = [err EXCEPT ![r] = <<"failed to remove temp dir", "cause">>]
          /\ UNCHANGED <<dirs, files>>
    /\ pc' = [pc EXCEPT ![r] = DeferredAfter(r, "cleanup")]
    /\ UNCHANGED <<ctxDoneAt, reqVars, idx, calls, written, pendingCommitRequests, gitVars>>

\* The deferred `err := cleanup(); if err != nil { log }`: os.RemoveAll(dirPath)
\* removes the workspace, or fails and leaves it in place.
Cleanup(r) ==
    /\ pc[r] = "cleanup"
    /\ \/ /\ dirs' = RemoveAllDirs(dirs, dirPath[r])
          /\ files' = RemoveAllFiles(files, dirPath[r])
          /\ UNCHANGED cleanupErr
       \/ /\ cleanupErr' = [cleanupErr EXCEPT ![r] = TRUE]
          /\ UNCHANGED <<dirs, files>>
    /\ pc' = [pc EXCEPT ![r] = DeferredAfter(r, "cleanup")]
    /\ UNCHANGED <<ctxDoneAt, reqVars, idx, err, calls, written, pendingCommitRequests, gitVars>>

\* The deferred s.metricsServer.DecPendingCommitRequest(r.Repo.Repo); Commit
\* has returned after it.
DecPendingCommitRequest(r) ==
    /\ pc[r] = "DecPendingCommitRequest"
    /\ pendingCommitRequests' =
           [pendingCommitRequests EXCEPT ![DecLabel(req[r])] = @ - 1]
    /\ pc' = [pc EXCEPT ![r] = DeferredAfter(r, "DecPendingCommitRequest")]
    /\ UNCHANGED <<ctxDoneAt, reqVars, idx, err, cleanupErr, calls, fsVars, gitVars>>

\* The caller cancels ctx, or its deadline expires, while Commit runs.  Commit
\* hands ctx to gitCreds.GetUserInfo only and never reads ctx.Done() or
\* ctx.Err(): no variable of Commit changes.
CancelContext(r) ==
    /\ pc[r] \notin {"idle", "returned"}
    /\ ctxDoneAt[r] = -1
    /\ ctxDoneAt' = [ctxDoneAt EXCEPT ![r] = Len(calls[r])]
    /\ UNCHANGED <<pc, reqVars, idx, err, cleanupErr, calls, fsVars,
                   pendingCommitRequests, gitVars>>

\* ----------------------------------------------------------- specifications
\* One Commit call, with any request of AllRequests.
Next ==
    \E r \in {1} :
        \/ Commit(r, AllRequests)
        \/ MakeSecureTempDir(r)
        \/ NewClientExt(r)
        \/ GitInit(r)
        \/ Fetch(r)
        \/ GetUserInfo(r)
        \/ SetAuthor(r)
        \/ CheckoutOrOrphan(r)
        \/ CheckoutOrNew(r)
        \/ RemoveContents(r)
        \/ WriteTopMetadata(r)
        \/ JoinHydratePath(r)
        \/ MkdirAll(r)
        \/ WriteManifests(r)
        \/ WriteMetadata(r)
        \/ WriteReadme(r)
        \/ CommitAndPush(r)
        \/ Cleanup(r)
        \/ DecPendingCommitRequest(r)

Spec == Init /\ [][Next]_vars

\* NumRequests Commit calls running concurrently (one goroutine per call),
\* with requests of ConcRequests, on a remote without branches.
NextConc ==
    \E r \in Requests :
        \/ Commit(r, ConcRequests)
        \/ MakeSecureTempDir(r)
        \/ NewClientExt(r)
        \/ GitInit(r)
        \/ Fetch(r)
        \/ GetUserInfo(r)
        \/ SetAuthor(r)
        \/ CheckoutOrOrphan(r)
        \/ CheckoutOrNew(r)
        \/ RemoveContents(r)
        \/ WriteTopMetadata(r)
        \/ JoinHydratePath(r)
        \/ MkdirAll(r)
        \/ WriteManifests(r)
        \/ WriteMetadata(r)
        \/ WriteReadme(r)
        \/ CommitAndPush(r)
        \/ Cleanup(r)
        \/ DecPendingCommitRequest(r)

InitConc == Init /\ remote = NoRemote

SpecConc == InitConc /\ [][NextConc]_vars

\* One Commit call with a request of ConcRequests whose ctx can be cancelled
\* at any point between two steps.
NextCtx ==
    \E r \in {1} :
        \/ CancelContext(r)
        \/ Commit(r, ConcRequests)
        \/ MakeSecureTempDir(r)
        \/ NewClientExt(r)
        \/ GitInit(r)
        \/ Fetch(r)
        \/ GetUserInfo(r)
        \/ SetAuthor(r)
        \/ CheckoutOrOrphan(r)
        \/ CheckoutOrNew(r)
        \/ RemoveContents(r)
        \/ WriteTopMetadata(r)
        \/ JoinHydratePath(r)
        \/ MkdirAll(r)
        \/ WriteManifests(r)
        \/ WriteMetadata(r)
        \/ WriteReadme(r)
        \/ CommitAndPush(r)
        \/ Cleanup(r)
        \/ DecPendingCommitRequest(r)

SpecCtx == Init /\ [][NextCtx]_vars

\* The steps of Commit once it is entered.
Run(r) ==
    \/ MakeSecureTempDir(r)
    \/ NewClientExt(r)
    \/ GitInit(r)
    \/ Fetch(r)
    \/ GetUserInfo(r)
    \/ SetAuthor(r)
    \/ CheckoutOrOrphan(r)
    \/ CheckoutOrNew(r)
    \/ RemoveContents(r)
    \/ WriteTopMetadata(r)
    \/ JoinHydratePath(r)
    \/ MkdirAll(r)
    \/ WriteManifests(r)
    \/ WriteMetadata(r)
    \/ WriteReadme(r)
    \/ CommitAndPush(r)
    \/ Cleanup(r)
    \/ DecPendingCommitRequest(r)

\* One Commit call with a request of LiveRequests.
NextLive == \E r \in {1} : Commit(r, LiveRequests) \/ Run(r)

\* Every collaborator call returns and the goroutine that runs Commit is
\* scheduled: a step that can be taken is eventually taken.
SpecLive == Init /\ [][NextLive]_vars /\ \A r \in {1} : WF_vars(Run(r))

TypeOK ==
    /\ \A r \in Requests : pc[r] \in Steps \cup {"idle", "cleanup", "DecPendingCommitRequest", "returned"}
    /\ \A l \in GaugeLabels : pendingCommitRequests[l] \in Int

\* ------------------------------------------------------- notions of claims
Returned(r) == pc[r] = "returned"

InFlight(r) == pc[r] \notin {"idle", "returned"}

\* Commit returned nil, having pushed
Succeeded(r) ==
    /\ pc[r] \in {"cleanup", "DecPendingCommitRequest", "returned"}
    /\ err[r] = <<>>
    /\ pushes[r] = 1

WorkspaceExists(r) == dirPath[r] # <<>> /\ dirPath[r] \in dirs

Inside(r, p) == dirPath[r] # <<>> /\ IsPrefix(dirPath[r], p)

HasTraversal(path) == \E k \in 1..Len(path) : path[k] = ".."

\* r called `op` for entry i of its paths
Called(r, op, i) == \E k \in 1..Len(calls[r]) : calls[r][k].op = op /\ calls[r][k].i = i

\* the call `op` of r for entry i succeeded
CalledOk(r, op, i) ==
    \E k \in 1..Len(calls[r]) :
        calls[r][k].op = op /\ calls[r][k].i = i /\ calls[r][k].ok

\* "." or the empty string
IsRootPath(path) == path \in {<<>>, <<".">>}

\* the directory of entry i of request r, relative to the workspace
EntryDir(r, i) == Resolve(<<>>, HydratePath(req[r].Paths[i]), 0)

\* the tree r committed to the target branch (Spec: the only request)
Committed(r) == remote[req[r].TargetBranch].tree

\* ------------------------------------------------------------------- C1
\* C1 as stated: once Commit has returned, however it ended, the request's
\* workspace directory does not exist.
C1_WorkspaceGoneAfterReturn ==
    \A r \in Requests : Returned(r) => ~WorkspaceExists(r)

\* C1 as amended: once Commit has returned, the workspace directory does not
\* exist unless its removal failed, and that failure was logged.
C1_WorkspaceGoneUnlessCleanupFailed ==
    \A r \in Requests :
        Returned(r) => /\ ~cleanupErr[r] => ~WorkspaceExists(r)
                       /\ WorkspaceExists(r) => cleanupErr[r]
                       /\ dirPath[r] = <<>> =>
                            (err[r] # <<>> /\ err[r][1] = ErrorMessage("makeSecureTempDir"))

\* a request that failed writing the README of its second entry has returned
\* and its workspace is gone
C1_Witness ==
    \E r \in Requests :
        /\ Returned(r) /\ dirPath[r] # <<>> /\ ~WorkspaceExists(r)
        /\ err[r] # <<>> /\ err[r][1] = ErrorMessage("WriteReadme")
        /\ idx[r] = 2

\* ------------------------------------------------------------------- C2
\* C2: when a step before CommitAndPush has failed, CommitAndPush is never
\* invoked and the remote is unchanged; what a request pushes, it pushes in
\* its CommitAndPush calls.
C2_NothingPushedBeforeCommit ==
    /\ (\A q \in Requests : pushes[q] = 0) => remote \in RemoteInits
    /\ \A r \in Requests :
        LET n == Len(calls[r])
            failedEarlier == \E k \in 1..n : ~calls[r][k].ok /\ calls[r][k].op # "CommitAndPush"
            commits == {k \in 1..n : calls[r][k].op = "CommitAndPush"}
        IN  /\ pushes[r] = Cardinality({k \in commits : calls[r][k].ok})
            /\ failedEarlier => commits = {} /\ pushes[r] = 0

\* the README of the second entry could not be written: the request has
\* returned that error and nothing was pushed
C2_Witness ==
    \E r \in Requests :
        /\ Returned(r) /\ err[r] # <<>> /\ err[r][1] = ErrorMessage("WriteReadme")
        /\ idx[r] = 2 /\ pushes[r] = 0 /\ ~Called(r, "CommitAndPush", 3)
        /\ Called(r, "WriteMetadata", 1)

\* ------------------------------------------------------------------- C3
\* C3: when the safe join is called for an entry whose path has traversal
\* segments, Commit does not go on to create the directory, it returns a
\* path-construction error, and no file is written outside the workspace.
C3_TraversalRejected ==
    \A r \in Requests : \A i \in 1..Len(req[r].Paths) :
        (HasTraversal(req[r].Paths[i].Path) /\ Called(r, "SecureJoin", i))
        => /\ ~Called(r, "MkdirAll", i)
           /\ Returned(r) => (err[r] # <<>> /\ err[r][1] = ErrorMessage("SecureJoin"))
           /\ \A p \in written[r] : Inside(r, p)

C5_RootMetadataHasNoCommands ==
    \A r \in Requests :
        Succeeded(r) =>
            /\ <<hydratorMetadataName>> \in DOMAIN Committed(r)
            /\ Committed(r)[<<hydratorMetadataName>>]
                 = hydratorMetadataFile(<<>>, req[r].RepoUrl, req[r].DrySha)

\* ------------------------------------------------------------------- C6
\* C6 as stated: in the tree a successful Commit committed, the metadata
\* file of every entry's directory has that entry's commands.
C6_EveryEntryHasItsCommands ==
    \A r \in Requests :
        Succeeded(r) =>
            \A i \in 1..Len(req[r].Paths) :
                Committed(r)[Append(EntryDir(r, i), hydratorMetadataName)].commands
                  = req[r].Paths[i].Commands

\* C6 as amended: in the tree a successful Commit committed, the metadata
\* file of an entry's directory has the commands, in order, of the last
\* entry of the request that resolves to that directory; so it has the
\* entry's own commands when no later entry resolves to the same directory.
C6_LastEntryOfDirectoryHasItsCommands ==
    \A r \in Requests :
        Succeeded(r) =>
            \A i \in 1..Len(req[r].Paths) :
                LET same == {j \in 1..Len(req[r].Paths) : EntryDir(r, j) = EntryDir(r, i)}
                    last == CHOOSE j \in same : \A k \in same : k <= j
                    file == Append(EntryDir(r, i), hydratorMetadataName)
                IN  /\ file \in DOMAIN Committed(r)
                    /\ Committed(r)[file].commands = req[r].Paths[last].Commands
                    /\ Committed(r)[file].repoURL = req[r].RepoUrl
                    /\ Committed(r)[file].drySha = req[r].DrySha

\* a request whose two entries resolve to the same directory with different
\* commands has committed
C6_Witness ==
    \E r \in Requests :
        /\ Succeeded(r) /\ Len(req[r].Paths) = 2
        /\ EntryDir(r, 1) = EntryDir(r, 2)
        /\ EntryDir(r, 1) = <<"apps", "foo">>
        /\ req[r].Paths[1].Commands = <<>>
        /\ req[r].Paths[2].Commands = <<"helm template", "kustomize build">>

\* ------------------------------------------------------------------- C7
\* C7: the gauge of the request's repository is one above its value before
\* the call (zero) from the entry of Commit until Commit returns, and back
\* at that value once Commit has returned, however it ended; no other label
\* is touched.
C7_CounterRestored ==
    \A l \in GaugeLabels :
        pendingCommitRequests[l] =
            IF \E r \in Requests : InFlight(r) /\ l = req[r].Repo THEN 1 ELSE 0

\* the workspace could not be created: Commit has returned and the gauge is
\* back at zero
C7_Witness ==
    \E r \in Requests :
        /\ Returned(r) /\ err[r] # <<>> /\ err[r][1] = ErrorMessage("makeSecureTempDir")
        /\ pendingCommitRequests[req[r].Repo] = 0

\* ------------------------------------------------------------------- C8
\* C8: under any interleaving the gauge of a repository equals the number of
\* requests for it that have entered Commit and not returned, is never
\* below zero, and is zero once every request has returned.
C8_CounterCountsInFlight ==
    \A l \in GaugeLabels :
        /\ pendingCommitRequests[l]
             = Cardinality({r \in Requests : InFlight(r) /\ req[r].Repo = l})
        /\ pendingCommitRequests[l] >= 0
        /\ (\A r \in Requests : Returned(r)) => pendingCommitRequests[l] = 0

\* two requests are in Commit at once
C8_Witness ==
    \E r1, r2 \in Requests :
        /\ r1 # r2 /\ pc[r1] = "CommitAndPush" /\ pc[r2] = "DecPendingCommitRequest"
        /\ pendingCommitRequests[req[r1].Repo] = 2

\* ------------------------------------------------------------------- C9
\* C9: two requests never have the same workspace directory, whether both
\* are in flight or one has finished, and no request writes into the
\* workspace of another.
C9_WorkspacesDistinct ==
    \A r1, r2 \in Requests :
        (r1 # r2 /\ dirPath[r1] # <<>> /\ dirPath[r2] # <<>>)
        => /\ dirPath[r1] # dirPath[r2]
           /\ ~IsPrefix(dirPath[r1], dirPath[r2])
           /\ \A p \in written[r1] : ~Inside(r2, p)

\* two requests write the README of their entry at the same time, each in
\* its own workspace
C9_Witness ==
    \E r1, r2 \in Requests :
        /\ r1 # r2
        /\ pc[r1] = "WriteReadme" /\ pc[r2] = "WriteReadme"
        /\ WorkspaceExists(r1) /\ WorkspaceExists(r2)
        /\ written[r1] # {} /\ written[r2] # {}

\* ------------------------------------------------------------------ C10
\* the wrapping messages of different steps differ
MessagesDistinct == \A s, t \in Steps : s # t => ErrorMessage(s) # ErrorMessage(t)

\* C10: the calls of a request are all distinct, at most one of them failed
\* and it is the last one; Commit returns the wrapping message of that step,
\* and nil when no step failed; the messages of different steps differ.
C10_FirstFailureReported ==
    /\ MessagesDistinct
    /\ \A r \in Requests :
        LET n == Len(calls[r])
        IN  /\ \A k \in 1..n : ~calls[r][k].ok => k = n
            /\ \A j \in 1..n : \A k \in (j + 1)..n :
                 calls[r][j].op # calls[r][k].op \/ calls[r][j].i # calls[r][k].i
            /\ (n > 0 /\ ~calls[r][n].ok)
               => /\ err[r] # <<>> /\ err[r][1] = ErrorMessage(calls[r][n].op)
                  /\ pc[r] \in {"cleanup", "DecPendingCommitRequest", "returned"}
            /\ (Returned(r) /\ err[r] # <<>>) => (n > 0 /\ ~calls[r][n].ok)
            /\ (Returned(r) /\ err[r] = <<>>)
               => (n > 0 /\ calls[r][n].op = "CommitAndPush" /\ calls[r][n].ok)

\* the metadata of the second entry could not be written: Commit returned
\* that error after the writes of the first entry
C10_Witness ==
    \E r \in Requests :
        /\ Returned(r) /\ err[r] # <<>> /\ err[r][1] = ErrorMessage("WriteMetadata")
        /\ idx[r] = 2 /\ Called(r, "WriteReadme", 1) /\ ~Called(r, "WriteReadme", 2)

\* ------------------------------------------------------------------ C11
\* C11: once ctx is cancelled or expired, Commit starts no further step (it
\* makes no call beyond those made before the cancellation), and when it has
\* returned the removal of the workspace was attempted.
C11_NoStepAfterCancel ==
    \A r \in Requests :
        ctxDoneAt[r] >= 0
        => /\ Len(calls[r]) = ctxDoneAt[r]
           /\ Returned(r) => (~WorkspaceExists(r) \/ cleanupErr[r])

\* ------------------------------------------------------------------ C12
\* C12: for an entry whose path is "." or empty, the safe join yields the
\* workspace root itself, the entry's manifests, metadata and README are
\* written directly at the workspace root, and no directory is created for
\* the entry: a request with only such entries creates no directory.
C12_RootPathWritesAtRoot ==
    \A r \in Requests :
        LET n == Len(req[r].Paths)
            RootFile(name) == Append(dirPath[r], name)
        IN  /\ \A i \in 1..n :
                 IsRootPath(req[r].Paths[i].Path)
                 => /\ (idx[r] = i /\ CalledOk(r, "SecureJoin", i))
                       => fullHydratePath[r] = dirPath[r]
                    /\ CalledOk(r, "WriteManifests", i) => RootFile(manifestName) \in written[r]
                    /\ CalledOk(r, "WriteMetadata", i) => RootFile(hydratorMetadataName) \in written[r]
                    /\ CalledOk(r, "WriteReadme", i) => RootFile(readmeName) \in written[r]
            /\ (\A i \in 1..n : IsRootPath(req[r].Paths[i].Path))
               => written[r] \subseteq
                    {RootFile(name) : name \in {manifestName, hydratorMetadataName, readmeName}}

\* a request with the entries "." and "" has committed: all it wrote are the
\* three files at the workspace root
C12_Witness ==
    \E r \in Requests :
        /\ Succeeded(r) /\ Len(req[r].Paths) = 2
        /\ req[r].Paths[1].Path = <<".">> /\ req[r].Paths[2].Path = <<>>
        /\ written[r] = {Append(dirPath[r], name) :
                           name \in {manifestName, hydratorMetadataName, readmeName}}
        /\ DOMAIN Committed(r) = {<<manifestName>>, <<hydratorMetadataName>>, <<readmeName>>}

\* ------------------------------------------------------------------ C13
\* the k-th call of a request with n entries, in the order of the claim:
\* workspace, client, init, fetch, identity, setAuthor, checkoutOrOrphan,
\* checkoutOrNew, removeContents, the writes, commitAndPush
ExpectedCall(n, k) ==
    IF k <= Len(Prologue) THEN [op |-> Prologue[k], i |-> 0]
    ELSE LET j == k - Len(Prologue) - 1
             e == (j \div Len(LoopBody)) + 1
         IN  IF e <= n THEN [op |-> LoopBody[(j % Len(LoopBody)) + 1], i |-> e]
             ELSE [op |-> "CommitAndPush", i |-> n + 1]

\* C13: the calls of a request are made in the order init, fetch, identity
\* resolution, setAuthor, checkoutOrOrphan, checkoutOrNew, removeContents,
\* then the file writes and only then commitAndPush; a call is made only
\* after the previous one succeeded and none is made twice; the target
\* branch, when new, starts from the sync branch, and only the target branch
\* of the remote is ever changed.
C13_ForwardOnlyOrder ==
    \A r \in Requests :
        LET n == Len(req[r].Paths)
        IN  /\ Len(calls[r]) <= Len(Prologue) + n * Len(LoopBody) + 1
            /\ \A k \in 1..Len(calls[r]) :
                 /\ calls[r][k].op = ExpectedCall(n, k).op
                 /\ calls[r][k].i = ExpectedCall(n, k).i
                 /\ k > 1 => calls[r][k - 1].ok
            /\ pc[r] = "RemoveContents"
               => WorkTree(files, dirPath[r]) =
                    IF fetched[r][req[r].TargetBranch].exists
                    THEN fetched[r][req[r].TargetBranch].tree
                    ELSE IF fetched[r][req[r].SyncBranch].exists
                         THEN fetched[r][req[r].SyncBranch].tree ELSE EmptyTree
            /\ pc[r] # "idle"
               => \E init \in RemoteInits :
                    remote[req[r].SyncBranch] = init[req[r].SyncBranch]

\* a request with two entries has made all its calls, the last one
\* commitAndPush, on a remote that had both branches
C13_Witness ==
    \E r \in Requests :
        /\ Returned(r) /\ Succeeded(r) /\ Len(req[r].Paths) = 2
        /\ Len(calls[r]) = Len(Prologue) + 2 * Len(LoopBody) + 1
        /\ fetched[r][req[r].TargetBranch].exists

\* ------------------------------------------------------------------ C14
\* the files of entry i of r, relative to the workspace
EntryFiles(r, i) ==
    {Append(EntryDir(r, i), name) : name \in {manifestName, hydratorMetadataName, readmeName}}

\* C14: nothing is committed while the entries are written; a successful
\* Commit has called CommitAndPush exactly once, as its last call and after
\* the five calls of every entry succeeded, and the one commit on the target
\* branch holds the manifests, metadata and README of every entry.
C14_OneCommitCoversAllEntries ==
    \A r \in Requests :
        LET n == Len(req[r].Paths)
            commits == {k \in 1..Len(calls[r]) : calls[r][k].op = "CommitAndPush"}
        IN  /\ pc[r] \in Steps => pushes[r] = 0 /\ commits = {}
            /\ Succeeded(r)
               => /\ commits = {Len(calls[r])}
                  /\ \A i \in 1..n : \A k \in 1..Len(LoopBody) : CalledOk(r, LoopBody[k], i)
                  /\ remote[req[r].TargetBranch].exists
                  /\ \A i \in 1..n : EntryFiles(r, i) \subseteq DOMAIN Committed(r)
                  /\ \A i \in 1..n :
                       Committed(r)[Append(EntryDir(r, i), manifestName)]
                         = ManifestFile(req[r].Paths[i].Manifests)

\* the request with the entries "apps/foo" and "apps/bar" has committed once
\* and both directories are in the commit
C14_Witness ==
    \E r \in Requests :
        /\ Succeeded(r) /\ pushes[r] = 1 /\ Len(req[r].Paths) = 2
        /\ req[r].Paths[1].Path = <<"apps", "foo">>
        /\ req[r].Paths[2].Path = <<"apps", "bar">>
        /\ {<<"apps", "foo", manifestName>>, <<"apps", "foo", hydratorMetadataName>>,
            <<"apps", "foo", readmeName>>, <<"apps", "bar", manifestName>>,
            <<"apps", "bar", hydratorMetadataName>>, <<"apps", "bar", readmeName>>}
             \subseteq DOMAIN Committed(r)

\* ------------------------------------------------------------------ C15
\* the files r wrote, by their path relative to the workspace
WrittenFiles(r) ==
    LET d == dirPath[r]
        fs == {p \in written[r] :
                 p[Len(p)] \in {manifestName, hydratorMetadataName, readmeName}}
    IN  {SubSeq(p, Len(d) + 1, Len(p)) : p \in fs}

\* C15: when CommitAndPush is about to run, the working tree holds exactly
\* the files this request wrote (the root metadata and the files of its
\* entries), so the tree a successful Commit committed holds exactly those
\* and no file of an earlier hydration of the target branch or of the sync
\* branch; its root metadata is of this request.
C15_NoStaleFilesCommitted ==
    \A r \in Requests :
        /\ pc[r] = "CommitAndPush"
           => /\ DOMAIN WorkTree(files, dirPath[r]) = WrittenFiles(r)
              /\ <<hydratorMetadataName>> \in WrittenFiles(r)
        /\ Succeeded(r)
           => /\ DOMAIN Committed(r) = WrittenFiles(r)
              /\ \A init \in RemoteInits : \A b \in Branches : \A f \in DOMAIN init[b].tree :
                     f \in DOMAIN Committed(r) => Committed(r)[f] # init[b].tree[f]
              /\ Committed(r)[<<hydratorMetadataName>>].drySha = req[r].DrySha

\* a request has committed on a target branch that held an earlier
\* hydration: old/manifest.yaml is gone from the branch
C15_Witness ==
    \E r \in Requests :
        /\ Succeeded(r) /\ Returned(r)
        /\ <<"old", manifestName>> \in DOMAIN fetched[r][req[r].TargetBranch].tree
        /\ <<"old", manifestName>> \notin DOMAIN Committed(r)
        /\ <<"apps", "foo", manifestName>> \in DOMAIN Committed(r)

\* ------------------------------------------------------------------ C16
\* C16: the deferred calls never change what Commit returns: the result that
\* is set when cleanup starts (nil after a successful CommitAndPush, the
\* error of the failed step otherwise) is the result when Commit has
\* returned, whether the removal of the workspace fails or not.
C16_CleanupNeverChangesResult ==
    [][\A r \in Requests :
          pc[r] \in {"cleanup", "DecPendingCommitRequest"} => err'[r] = err[r]]_vars

\* the removal of the workspace failed after every step of a request with
\* two entries succeeded: Commit has returned nil
C16_Witness ==
    \E r \in Requests :
        /\ Returned(r) /\ cleanupErr[r] /\ WorkspaceExists(r)
        /\ Succeeded(r) /\ Len(req[r].Paths) = 2

\* ------------------------------------------------------------------ C17
\* CommitAndPush of r failed
PushFailed(r) ==
    \E k \in 1..Len(calls[r]) : calls[r][k].op = "CommitAndPush" /\ ~calls[r][k].ok

\* C17 as stated: when CommitAndPush failed, Commit returns the
\* commit-and-push error, CommitAndPush was invoked once, and once Commit
\* has returned the workspace does not exist.
C17_PushFailureRemovesWorkspace ==
    \A r \in Requests :
        PushFailed(r)
        => /\ err[r] # <<>> /\ err[r][1] = ErrorMessage("CommitAndPush")
           /\ Cardinality({k \in 1..Len(calls[r]) : calls[r][k].op = "CommitAndPush"}) = 1
           /\ Returned(r) => ~WorkspaceExists(r)

\* C17 as amended: when CommitAndPush failed, Commit returns the
\* commit-and-push error, CommitAndPush was invoked once, nothing was
\* pushed, and once Commit has returned the removal of the workspace was
\* attempted: the workspace does not exist unless that removal failed.
C17_PushFailureReleasesWorkspace ==
    \A r \in Requests :
        PushFailed(r)
        => /\ err[r] # <<>> /\ err[r][1] = ErrorMessage("CommitAndPush")
           /\ Cardinality({k \in 1..Len(calls[r]) : calls[r][k].op = "CommitAndPush"}) = 1
           /\ pushes[r] = 0
           /\ pc[r] \in {"cleanup", "DecPendingCommitRequest", "returned"}
           /\ Returned(r) => (WorkspaceExists(r) <=> cleanupErr[r])

\* the push of a request with two entries was rejected: Commit has returned
\* the error and the workspace is gone
C17_Witness ==
    \E r \in Requests :
        /\ Returned(r) /\ PushFailed(r) /\ Len(req[r].Paths) = 2
        /\ err[r] = Wrapped("CommitAndPush")
        /\ dirPath[r] # <<>> /\ ~WorkspaceExists(r)

\* ------------------------------------------------------------------ C18
\* C18: when makeSecureTempDir failed, it is the only call the request
\* makes: no client is created and no version-control operation, credential
\* lookup or file write is invoked; nothing was created on disk or pushed,
\* Commit returns the workspace error, and once it has returned the gauge is
\* back at its value before the call.
C18_NoWorkspaceNoWork ==
    \A r \in Requests :
        (Len(calls[r]) >= 1 /\ ~calls[r][1].ok)
        => /\ calls[r] = <<[op |-> "makeSecureTempDir", i |-> 0, ok |-> FALSE]>>
           /\ err[r] # <<>> /\ err[r][1] = ErrorMessage("makeSecureTempDir")
           /\ dirPath[r] = <<>> /\ written[r] = {} /\ pushes[r] = 0
           /\ fetched[r] = NoRemote
           /\ pc[r] \in {"DecPendingCommitRequest", "returned"}
           /\ pendingCommitRequests[req[r].Repo] = IF Returned(r) THEN 0 ELSE 1

\* the directory of the workspace could not be created: Commit has returned
\* after that one call, with nothing on disk
C18_Witness ==
    \E r \in Requests :
        /\ Returned(r) /\ Len(calls[r]) = 1
        /\ err[r] = <<ErrorMessage("makeSecureTempDir"), "failed to create temp dir", "cause">>
        /\ dirs = {<<>>, <<"tmp">>} /\ files = <<>>
        /\ pendingCommitRequests[req[r].Repo] = 0

\* ------------------------------------------------------------------ C19
\* C19: a request makes at most one call per step of the prologue, five per
\* entry of its paths and one commitAndPush (one pass over the paths, no
\* retry), and every request that entered Commit eventually returns.
C19_EveryRequestReturns ==
    /\ [](\A r \in Requests :
             Len(calls[r]) <= Len(Prologue) + Len(req[r].Paths) * Len(LoopBody) + 1)
    /\ \A r \in Requests : (pc[r] # "idle") ~> Returned(r)

\* a request with the entries "apps/foo" and "apps/bar" has returned nil
\* after all its calls
C19_Witness ==
    \E r \in Requests :
        /\ Returned(r) /\ err[r] = <<>> /\ Len(req[r].Paths) = 2
        /\ Len(calls[r]) = Len(Prologue) + 2 * Len(LoopBody) + 1
        /\ req[r].Paths[1].Path # req[r].Paths[2].Path

\* ------------------------------------------------------------------ C20
\* the workspace of r exists and its removal has not failed
LiveWorkspace(r) == WorkspaceExists(r) /\ ~cleanupErr[r]

\* C20: under any interleaving, a workspace that exists and whose removal
\* has not failed belongs to a request still counted in the gauge (the
\* decrement runs after cleanup), so the number of such workspaces of a
\* repository never exceeds its gauge; a request that created a workspace is
\* past cleanup when it is about to decrement.
C20_WorkspacesWithinGauge ==
    /\ \A r \in Requests :
          /\ LiveWorkspace(r) => InFlight(r) /\ pc[r] # "DecPendingCommitRequest"
          /\ (pc[r] \in {"DecPendingCommitRequest", "returned"} /\ dirPath[r] # <<>>)
             => (~WorkspaceExists(r) \/ cleanupErr[r])
    /\ \A l \in GaugeLabels :
          Cardinality({r \in Requests : req[r].Repo = l /\ LiveWorkspace(r)})
            <= pendingCommitRequests[l]

\* one request has removed its workspace and is about to decrement the
\* gauge while another is writing in its own workspace: one workspace, two
\* pending requests
C20_Witness ==
    \E r1, r2 \in Requests :
        /\ r1 # r2
        /\ pc[r1] = "DecPendingCommitRequest" /\ dirPath[r1] # <<>> /\ ~WorkspaceExists(r1)
        /\ pc[r2] = "WriteManifests" /\ LiveWorkspace(r2)
        /\ pendingCommitRequests[req[r1].Repo] = 2

====
